---- MODULE Spec2Model ----
(***************************************************************************)
(* Model of the token streaming program (programs/streaming/src/lib.rs):   *)
(* the create_stream and withdraw instructions, the account constraints of *)
(* their contexts, the schedule validator and the vesting calculator.      *)
(***************************************************************************)
EXTENDS Integers, Sequences, FiniteSets, TLC

(***************************************************************************)
(* i64 values.  A timestamp is the record [k, o] standing for the integer  *)
(* k * 2^63 + o, with k in -1..1 and o a small offset: the values within a *)
(* small distance of i64::MIN (k = -1, o >= 0), of 0 (k = 0) and of        *)
(* i64::MAX (k = 1, o < 0).  On these values i64 comparison and wrapping   *)
(* subtraction are computed exactly.                                       *)
(***************************************************************************)
I64(k, o) == [k |-> k, o |-> o]

I64Lt(a, b) == a.k < b.k \/ (a.k = b.k /\ a.o < b.o)

I64Le(a, b) == a = b \/ I64Lt(a, b)

\* a - b in the integers is K * 2^63 + O; it leaves the i64 range exactly when
\* SubOverflows, and the two's complement result is then 2^64 away from it.
SubOverflows(a, b) ==
    LET K == a.k - b.k
        O == a.o - b.o
    IN  \/ K = 2 \/ K = -2
        \/ K = 1 /\ O >= 0
        \/ K = -1 /\ O < 0

WrappingSub(a, b) ==
    LET K == a.k - b.k
        O == a.o - b.o
    IN  CASE K = 0 -> I64(0, O)
          [] K = 2 \/ K = -2 -> I64(0, O)
          [] K = 1 -> IF O < 0 THEN I64(1, O) ELSE I64(-1, O)
          [] K = -1 -> IF O >= 0 THEN I64(-1, O) ELSE I64(1, O)

(***************************************************************************)
(* Naturals wider than a machine integer of the checker: a sequence of     *)
(* limbs, least significant first, each below Base.                        *)
(***************************************************************************)
LimbBits == 9
Base == 2^LimbBits

Limb(ls, i) == IF i < 1 \/ i > Len(ls) THEN 0 ELSE ls[i]

BitAt(ls, j) == (Limb(ls, (j \div LimbBits) + 1) \div 2^(j % LimbBits)) % 2

RECURSIVE NatBitLen(_)
NatBitLen(n) == IF n = 0 THEN 0 ELSE 1 + NatBitLen(n \div 2)

RECURSIVE TopLimb(_, _)
\* the index of the highest nonzero limb at or below i (0 if none)
TopLimb(ls, i) == IF i = 0 \/ ls[i] # 0 THEN i ELSE TopLimb(ls, i - 1)

BitLen(ls) ==
    LET t == TopLimb(ls, Len(ls))
    IN  IF t = 0 THEN 0 ELSE LimbBits * (t - 1) + NatBitLen(ls[t])

RECURSIVE LowBit(_, _)
\* the index of the lowest set bit at or above j (ls # 0)
LowBit(ls, j) == IF BitAt(ls, j) = 1 THEN j ELSE LowBit(ls, j + 1)

RECURSIVE LowLimb(_, _)
LowLimb(ls, i) == IF ls[i] # 0 THEN i ELSE LowLimb(ls, i + 1)

\* number of zero bits below the lowest set bit (ls # 0)
TrailingZeros(ls) == LowBit(ls, LimbBits * (LowLimb(ls, 1) - 1))

\* floor(ls * 2^k) for any integer k, in `limbs` limbs
Shift(ls, k, limbs) ==
    LET q == (-k) \div LimbBits
        r == (-k) % LimbBits
    IN  [i \in 1..limbs |->
            (Limb(ls, i + q) \div 2^r) + (Limb(ls, i + q + 1) % 2^r) * 2^(LimbBits - r)]

\* some bit below bit j of ls is set
AnyBelow(ls, j) ==
    \/ \E i \in 1..(j \div LimbBits) : Limb(ls, i) # 0
    \/ Limb(ls, (j \div LimbBits) + 1) % 2^(j % LimbBits) # 0

NatLimbs(n) == [i \in 1..4 |-> (n \div Base^(i - 1)) % Base]

RECURSIVE LimbsNat(_, _)
\* the value of limbs i.. of ls, for a value that fits a machine integer
LimbsNat(ls, i) == IF i > Len(ls) THEN 0 ELSE ls[i] + Base * LimbsNat(ls, i + 1)

RECURSIVE IncFrom(_, _)
IncFrom(ls, i) ==
    IF i > Len(ls) THEN Append(ls, 1)
    ELSE IF ls[i] + 1 < Base THEN [ls EXCEPT ![i] = @ + 1]
    ELSE IncFrom([ls EXCEPT ![i] = 0], i + 1)

RECURSIVE MulFrom(_, _, _, _)
\* limbs i.. of ls * m + carry, followed by the limbs of the last carry
MulFrom(ls, m, i, carry) ==
    IF i > Len(ls) THEN NatLimbs(carry)
    ELSE LET t == ls[i] * m + carry
         IN  <<t % Base>> \o MulFrom(ls, m, i + 1, t \div Base)

RECURSIVE DivFrac(_, _, _)
\* n limbs of the fraction r / m (r < m), most significant first, then the
\* remainder left
DivFrac(r, m, n) ==
    IF n = 0 THEN <<r>>
    ELSE <<(r * Base) \div m>> \o DivFrac((r * Base) % m, m, n - 1)

Reverse(sq) == [i \in 1..Len(sq) |-> sq[Len(sq) + 1 - i]]

(***************************************************************************)
(* f64 arithmetic, round to nearest, ties to even.  A float is             *)
(* [neg, m, e]: (-1)^neg * m * 2^e with m a significand of exactly         *)
(* MantBits bits (in MantLimbs limbs), or m = 0 for zero.                  *)
(***************************************************************************)
MantBits == 53
MantLimbs == (MantBits + LimbBits - 1) \div LimbBits
FracLimbs == 9

F64Zero(neg) == [neg |-> neg, m |-> [i \in 1..MantLimbs |-> 0], e |-> 0]

\* Rounds the exact value (ls + a nonzero fraction iff sticky) * 2^e.
RoundF64(neg, ls, sticky, e) ==
    LET len == BitLen(ls)
        drop == len - MantBits
    IN  IF len = 0 THEN F64Zero(neg)
        ELSE IF drop <= 0
        THEN [neg |-> neg, m |-> Shift(ls, -drop, MantLimbs), e |-> e + drop]
        ELSE
            LET keep == Shift(ls, -drop, MantLimbs)
                guard == BitAt(ls, drop - 1)
                rest == sticky \/ AnyBelow(ls, drop - 1)
                up == guard = 1 /\ (rest \/ BitAt(keep, 0) = 1)
                inc == IF up THEN IncFrom(keep, 1) ELSE keep
            IN  IF BitLen(inc) > MantBits
                THEN [neg |-> neg, m |-> Shift(inc, -1, MantLimbs), e |-> e + drop + 1]
                ELSE [neg |-> neg, m |-> SubSeq(inc, 1, MantLimbs), e |-> e + drop]

\* `n as f64` for a u64 n below 2^31: exact.
U64ToF64(n) == RoundF64(FALSE, NatLimbs(n), FALSE, 0)

\* `d as f64` for an i64 d.  An offset of at most 512 from +-2^63 is below half
\* the spacing (1024) of the floats there, so the conversion gives +-2^63.
I64ToF64(d) ==
    CASE d.k = 0 -> RoundF64(d.o < 0, NatLimbs(IF d.o < 0 THEN -d.o ELSE d.o), FALSE, 0)
      [] d.k = 1 -> RoundF64(FALSE, NatLimbs(1), FALSE, 63)
      [] d.k = -1 -> RoundF64(TRUE, NatLimbs(1), FALSE, 63)

\* x = Sig(x) * 2^SigExp(x) with Sig(x) odd: for a float converted from an
\* integer below 2^22, or a power of two, Sig(x) is below 2^22.
Sig(x) == LimbsNat(Shift(x.m, -TrailingZeros(x.m), 3), 1)
SigExp(x) == x.e + TrailingZeros(x.m)

\* x / y (y # 0): the quotient of the significands by long division, three
\* limbs of integer part and FracLimbs of fraction with a sticky remainder,
\* rounded once.
F64Div(x, y) ==
    IF BitLen(x.m) = 0 THEN F64Zero(x.neg # y.neg)
    ELSE
        LET mx == Sig(x)
            my == Sig(y)
            fr == DivFrac(mx % my, my, FracLimbs)
            q == Reverse(SubSeq(fr, 1, FracLimbs)) \o NatLimbs(mx \div my)
        IN  RoundF64(x.neg # y.neg, q, fr[FracLimbs + 1] # 0,
                     SigExp(x) - SigExp(y) - LimbBits * FracLimbs)

\* x * y: the exact product of the significands, rounded once.
F64Mul(x, y) ==
    IF BitLen(x.m) = 0 \/ BitLen(y.m) = 0 THEN F64Zero(x.neg # y.neg)
    ELSE RoundF64(x.neg # y.neg, MulFrom(x.m, Sig(y), 1, 0), FALSE, x.e + SigExp(y))

\* `x as u64` for a value below 2^31: truncation toward zero, 0 for negatives.
F64ToU64(x) ==
    IF x.neg THEN 0 ELSE LimbsNat(Shift(x.m, x.e, 4), 1)

(***************************************************************************)
(* Bounds of the model.                                                    *)
(***************************************************************************)
MaxDeposit == 2
MaxTime == 62
Donated == 1
MaxCalcDeposit == 3
MaxSpan == 50
ScenarioDeposit == 1000000
ScenarioSpan == 1000

\* who signs as the authority account of an instruction: <<address, is_signer>>
Signers(a, b) == {<<a, TRUE>>, <<b, TRUE>>, <<a, FALSE>>}

(***************************************************************************)
(* Utility functions of the program.                                       *)
(***************************************************************************)
MinLead == 60

\* is_valid_schedule.  The subtraction start_ts - current_time is an i64
\* subtraction: when it overflows, a build with overflow checks panics and a
\* build without them continues with the wrapped difference.
is_valid_schedule(start_ts, end_ts, current_time, overflow_checks) ==
    IF I64Le(end_ts, start_ts) THEN "reject"
    ELSE IF SubOverflows(start_ts, current_time) /\ overflow_checks THEN "panic"
    ELSE IF I64Lt(WrappingSub(start_ts, current_time), I64(0, MinLead)) THEN "reject"
    ELSE "accept"

\* the rate taken by integer division
StreamedSoFar_integer_rate(max_balance, delta) ==
    IF delta.k = 0 /\ delta.o > 0 THEN (max_balance \div delta.o) * delta.o ELSE 0

\* The last branch of available_for_withdrawal: rate = max_balance / delta in
\* f64, current = rate * delta, truncated to u64.
StreamedSoFar(max_balance, delta) ==
    LET rate == F64Div(U64ToF64(max_balance), I64ToF64(delta))
        current == F64Mul(rate, I64ToF64(delta))
    IN  F64ToU64(current)

\* StreamedSoFar, computed once for the balances and time differences of the
\* streams of the model: the set of <<max_balance, delta, StreamedSoFar>>
StreamedTable ==
    {<<a, I64(0, d), StreamedSoFar(a, I64(0, d))>> :
        a \in 1..MaxDeposit, d \in 1..(MaxTime - MinLead)}

\* available_for_withdrawal, for the streaming account s at clock time current_ts
available_for_withdrawal(s, current_ts) ==
    LET start_ts == s.start_ts
        end_ts == s.end_ts
        max_balance == s.original_deposit_size
    IN  IF I64Lt(current_ts, start_ts) THEN 0
        ELSE IF ~I64Lt(current_ts, end_ts) THEN max_balance
        ELSE LET delta == WrappingSub(end_ts, current_ts)
                 known == {t \in StreamedTable : t[1] = max_balance /\ t[2] = delta}
             IN  IF known # {} THEN (CHOOSE t \in known : TRUE)[3]
                 ELSE StreamedSoFar(max_balance, delta)

\* end_ts - current_ts overflows in the last branch
DeltaOverflows(s, current_ts) ==
    /\ ~I64Lt(current_ts, s.start_ts)
    /\ I64Lt(current_ts, s.end_ts)
    /\ SubOverflows(s.end_ts, current_ts)

(***************************************************************************)
(* Accounts.  Addresses are strings.  DefaultPubkey is Pubkey::default(),  *)
(* the all-zero address every Pubkey field of a freshly allocated account  *)
(* holds.  The program does not constrain which addresses hold token       *)
(* accounts: TokenKeys has a token account at each of four addresses, one  *)
(* of them DefaultPubkey, which holds Donated tokens before any stream is  *)
(* created (anyone may transfer tokens to a token account).                *)
(***************************************************************************)
DefaultPubkey == "11111111111111111111111111111111"
StreamKey == "stream"
Grantor == "grantor"
Beneficiary == "beneficiary"
Mallory == "mallory"
Mint == "mint"
Vault == "vault"
GrantorTokens == "grantor_tokens"
ReceiverTokens == "receiver_tokens"

TokenKeys == {DefaultPubkey, Vault, GrantorTokens, ReceiverTokens}
Nonces == {254, 255}

\* Pubkey::create_program_address(&[key, &[nonce]], program_id): an address no
\* private key signs for, or an error for the nonces whose hash is on the curve
ProgramAddress(key, nonce) ==
    CASE nonce = 255 -> "err"
      [] nonce = 254 -> "pda(" \o key \o ",254)"

\* the owner (authority) and the mint recorded in each token account
TokenOwner(k) ==
    CASE k = DefaultPubkey -> ProgramAddress(StreamKey, 254)
      [] k = Vault -> ProgramAddress(StreamKey, 254)
      [] k = GrantorTokens -> Grantor
      [] k = ReceiverTokens -> Beneficiary

TokenMint(k) == Mint

GrantorFunds == MaxDeposit
\* withdraw is followed while the amounts withdrawn add up to at most MaxPaid
MaxPaid == MaxDeposit + Donated + 1
Amounts == 0..MaxDeposit
Times == {0, MinLead, MaxTime}
StartArgs == {I64(-1, 0), I64(0, MinLead)}
EndArgs == {I64(-1, 0), I64(0, MaxTime)}

VARIABLES
    streaming,  \* the data of the streaming account at StreamKey
    token,      \* the amount held by each token account
    now,        \* Clock::unix_timestamp
    last,       \* the instruction executed by the last step, and its result
    ghost,      \* history: the total paid out by withdraw, the vault funded
    calc        \* the last application of a utility function on its own

vars == <<streaming, token, now, last, ghost, calc>>

\* a freshly allocated account: all zero
ZeroedStreaming ==
    [initialized |-> FALSE,
     beneficiary |-> DefaultPubkey,
     grantor |-> DefaultPubkey,
     mint |-> DefaultPubkey,
     vault |-> DefaultPubkey,
     original_deposit_size |-> 0,
     outstanding |-> 0,
     created_ts |-> I64(0, 0),
     start_ts |-> I64(0, 0),
     end_ts |-> I64(0, 0),
     nonce |-> 0]

NoOp == [op |-> "none", result |-> "none"]
NoCalc == [fn |-> "none"]

Init ==
    /\ streaming = ZeroedStreaming
    /\ token = [k \in TokenKeys |->
                   CASE k = GrantorTokens -> GrantorFunds
                     [] k = DefaultPubkey -> Donated
                     [] OTHER -> 0]
    /\ now = 0
    /\ last = NoOp
    /\ ghost = [paid |-> 0, funded |-> "none"]
    /\ calc = NoCalc

(***************************************************************************)
(* token::transfer, the token program's instruction reached by CPI: the    *)
(* balances after the transfer, or the error it fails with.                *)
(***************************************************************************)
TransferError(tok, from, to, authority, signed, amount) ==
    IF tok[from] < amount THEN "InsufficientFunds"
    ELSE IF TokenMint(from) # TokenMint(to) THEN "MintMismatch"
    ELSE IF TokenOwner(from) # authority THEN "OwnerMismatch"
    ELSE IF ~signed THEN "MissingRequiredSignature"
    ELSE "Ok"

\* the transfer with source and destination exchanged
Transferred_reversed(tok, from, to, amount) ==
    IF from = to THEN tok
    ELSE [tok EXCEPT ![to] = @ - amount, ![from] = @ + amount]

Transferred(tok, from, to, amount) ==
    IF from = to THEN tok
    ELSE [tok EXCEPT ![from] = @ - amount, ![to] = @ + amount]

(***************************************************************************)
(* create_stream                                                           *)
(***************************************************************************)
\* The handlers work on a deserialized copy of the streaming account
\* (&mut ctx.accounts.streaming); the copy is written back to the account when
\* the handler returns Ok(()), and an Err (the ? of token::transfer included)
\* or a panic aborts the instruction with the account as it was.

\* the copy is written back although the transfer that follows the writes failed
account_exit_after_transfer_error(result, before, written) ==
    IF result \in {"Ok", "InsufficientFunds", "MintMismatch", "OwnerMismatch",
                   "MissingRequiredSignature"}
    THEN written ELSE before

account_exit(result, before, written) == IF result = "Ok" THEN written ELSE before

\* valid_vault_owner without the comparison of the vault's owner with the
\* derived authority
valid_vault_owner_unchecked(vault, nonce) ==
    IF ProgramAddress(StreamKey, nonce) = "err" THEN "InvalidVaultAuthority" ELSE "Ok"

\* CreateStream::valid_vault_owner, the access control check
valid_vault_owner(vault, nonce) ==
    LET vault_authority == ProgramAddress(StreamKey, nonce)
    IN  IF vault_authority = "err" THEN "InvalidVaultAuthority"
        ELSE IF TokenOwner(vault) # vault_authority THEN "InvalidVaultAuthority"
        ELSE "Ok"

\* create_stream leaving outstanding as allocated
create_stream_fields_zero_outstanding(s, beneficiary, original_deposit_size, start_ts, end_ts, nonce, vault, depositor_authority, clock) ==
    [s EXCEPT !.initialized = TRUE,
              !.beneficiary = beneficiary,
              !.grantor = depositor_authority,
              !.mint = TokenMint(vault),
              !.original_deposit_size = original_deposit_size,
              !.created_ts = clock,
              !.start_ts = start_ts,
              !.end_ts = end_ts,
              !.nonce = nonce]

\* create_stream leaving original_deposit_size as allocated
create_stream_fields_no_deposit_size(s, beneficiary, original_deposit_size, start_ts, end_ts, nonce, vault, depositor_authority, clock) ==
    [s EXCEPT !.initialized = TRUE,
              !.beneficiary = beneficiary,
              !.grantor = depositor_authority,
              !.mint = TokenMint(vault),
              !.outstanding = original_deposit_size,
              !.created_ts = clock,
              !.start_ts = start_ts,
              !.end_ts = end_ts,
              !.nonce = nonce]

\* the fields create_stream writes
create_stream_fields(s, beneficiary, original_deposit_size, start_ts, end_ts, nonce, vault, depositor_authority, clock) ==
    [s EXCEPT !.initialized = TRUE,
              !.beneficiary = beneficiary,
              !.grantor = depositor_authority,
              !.mint = TokenMint(vault),
              !.original_deposit_size = original_deposit_size,
              !.outstanding = original_deposit_size,
              !.created_ts = clock,
              !.start_ts = start_ts,
              !.end_ts = end_ts,
              !.nonce = nonce]

\* create_stream without the check of a zero deposit
create_stream_zero_deposit(beneficiary, original_deposit_size, start_ts, end_ts, nonce, vault, depositor, depositor_authority, signed, overflow_checks) ==
    LET schedule == is_valid_schedule(start_ts, end_ts, I64(0, now), overflow_checks)
    IN  IF streaming.initialized THEN "AccountAlreadyInitialized"
        ELSE IF ~signed THEN "ConstraintSigner"
        ELSE IF valid_vault_owner(vault, nonce) # "Ok" THEN valid_vault_owner(vault, nonce)
        ELSE IF schedule = "panic" THEN "Panicked"
        ELSE IF schedule = "reject" THEN "InvalidSchedule"
        ELSE TransferError(token, depositor, vault, depositor_authority, signed,
                           original_deposit_size)

\* create_stream checking the schedule before the deposit
create_stream_schedule_first(beneficiary, original_deposit_size, start_ts, end_ts, nonce, vault, depositor, depositor_authority, signed, overflow_checks) ==
    LET schedule == is_valid_schedule(start_ts, end_ts, I64(0, now), overflow_checks)
    IN  IF streaming.initialized THEN "AccountAlreadyInitialized"
        ELSE IF ~signed THEN "ConstraintSigner"
        ELSE IF valid_vault_owner(vault, nonce) # "Ok" THEN valid_vault_owner(vault, nonce)
        ELSE IF schedule = "panic" THEN "Panicked"
        ELSE IF schedule = "reject" THEN "InvalidSchedule"
        ELSE IF original_deposit_size = 0 THEN "InvalidDepositAmount"
        ELSE TransferError(token, depositor, vault, depositor_authority, signed,
                           original_deposit_size)

\* the result of the instruction: the account constraints, the access control
\* check, the body's checks in their order, then the deposit transfer
create_stream_result(beneficiary, original_deposit_size, start_ts, end_ts, nonce, vault, depositor, depositor_authority, signed, overflow_checks) ==
    LET schedule == is_valid_schedule(start_ts, end_ts, I64(0, now), overflow_checks)
    IN  IF streaming.initialized THEN "AccountAlreadyInitialized"
        ELSE IF ~signed THEN "ConstraintSigner"
        ELSE IF valid_vault_owner(vault, nonce) # "Ok" THEN valid_vault_owner(vault, nonce)
        ELSE IF original_deposit_size = 0 THEN "InvalidDepositAmount"
        ELSE IF schedule = "panic" THEN "Panicked"
        ELSE IF schedule = "reject" THEN "InvalidSchedule"
        ELSE TransferError(token, depositor, vault, depositor_authority, signed,
                           original_deposit_size)

CreateStream ==
    IF streaming.initialized
    THEN /\ last' = [op |-> "create_stream", result |-> "AccountAlreadyInitialized"]
         /\ UNCHANGED <<streaming, token, now, ghost, calc>>
    ELSE
    \E beneficiary \in {Beneficiary, Mallory}, original_deposit_size \in Amounts,
       start_ts \in StartArgs, end_ts \in EndArgs, nonce \in Nonces,
       vault \in {DefaultPubkey, Vault, GrantorTokens},
       signer \in Signers(Grantor, Mallory) :
      \E overflow_checks \in
            IF SubOverflows(start_ts, I64(0, now)) THEN BOOLEAN ELSE {FALSE} :
        LET depositor == GrantorTokens
            depositor_authority == signer[1]
            signed == signer[2]
            result == create_stream_result(beneficiary, original_deposit_size, start_ts,
                          end_ts, nonce, vault, depositor, depositor_authority, signed,
                          overflow_checks)
        IN  /\ last' = [op |-> "create_stream", result |-> result,
                        beneficiary |-> beneficiary,
                        original_deposit_size |-> original_deposit_size,
                        start_ts |-> start_ts, end_ts |-> end_ts, nonce |-> nonce,
                        vault |-> vault, depositor |-> depositor,
                        depositor_authority |-> depositor_authority, signed |-> signed]
            /\ streaming' = account_exit(result, streaming,
                                 create_stream_fields(streaming, beneficiary,
                                     original_deposit_size, start_ts, end_ts, nonce,
                                     vault, depositor_authority, I64(0, now)))
            /\ IF result = "Ok"
               THEN /\ token' = Transferred(token, depositor, vault, original_deposit_size)
                    /\ ghost' = [ghost EXCEPT !.funded = vault]
               ELSE UNCHANGED <<token, ghost>>
            /\ UNCHANGED <<now, calc>>

(***************************************************************************)
(* withdraw                                                                *)
(***************************************************************************)
\* withdraw taking amount off original_deposit_size
withdraw_fields_rebased(s, amount) ==
    [s EXCEPT !.original_deposit_size = IF @ >= amount THEN @ - amount ELSE @]

\* the fields withdraw writes: it assigns to no field of the streaming account
withdraw_fields(s, amount) == s

\* the Withdraw constraints without has_one = beneficiary
withdraw_accounts_any_beneficiary(beneficiary, signed, vault, vault_authority) ==
    IF ~streaming.initialized THEN "AccountNotInitialized"
    ELSE IF streaming.vault # vault THEN "ConstraintHasOne"
    ELSE IF ~signed THEN "ConstraintSigner"
    ELSE IF vault_authority # ProgramAddress(StreamKey, streaming.nonce)
         THEN "ConstraintSeeds"
    ELSE "Ok"

\* the constraints of the Withdraw accounts struct
withdraw_accounts(beneficiary, signed, vault, vault_authority) ==
    IF ~streaming.initialized THEN "AccountNotInitialized"
    ELSE IF streaming.beneficiary # beneficiary THEN "ConstraintHasOne"
    ELSE IF streaming.vault # vault THEN "ConstraintHasOne"
    ELSE IF ~signed THEN "ConstraintSigner"
    ELSE IF vault_authority # ProgramAddress(StreamKey, streaming.nonce)
         THEN "ConstraintSeeds"
    ELSE "Ok"

\* withdraw without the comparison of amount with the vesting calculator
withdraw_unlimited(amount, beneficiary, signed, vault, vault_authority, receiver_vault, overflow_checks) ==
    LET accounts == withdraw_accounts(beneficiary, signed, vault, vault_authority)
    IN  IF accounts # "Ok" THEN accounts
        ELSE TransferError(token, vault, receiver_vault, vault_authority,
                 vault_authority = ProgramAddress(StreamKey, streaming.nonce), amount)

\* the result of the instruction: the account constraints, the body's check,
\* then the payout transfer signed with the seeds of the vault authority
withdraw_result(amount, beneficiary, signed, vault, vault_authority, receiver_vault, overflow_checks) ==
    LET accounts == withdraw_accounts(beneficiary, signed, vault, vault_authority)
    IN  IF accounts # "Ok" THEN accounts
        ELSE IF DeltaOverflows(streaming, I64(0, now)) /\ overflow_checks THEN "Panicked"
        ELSE IF amount > available_for_withdrawal(streaming, I64(0, now))
             THEN "InvalidWithdrawAmount"
        ELSE TransferError(token, vault, receiver_vault, vault_authority,
                 vault_authority = ProgramAddress(StreamKey, streaming.nonce), amount)

Withdraw ==
    \E amount \in Amounts, signer \in Signers(Beneficiary, Mallory),
       vault \in {DefaultPubkey, Vault},
       vault_authority \in {ProgramAddress(StreamKey, 254), Mallory},
       receiver_vault \in {ReceiverTokens, DefaultPubkey} :
      \E overflow_checks \in
            IF DeltaOverflows(streaming, I64(0, now)) THEN BOOLEAN ELSE {FALSE} :
        LET beneficiary == signer[1]
            signed == signer[2]
            result == withdraw_result(amount, beneficiary, signed, vault, vault_authority,
                                      receiver_vault, overflow_checks)
        IN  /\ ghost.paid + amount <= MaxPaid
            /\ last' = [op |-> "withdraw", result |-> result, amount |-> amount,
                        beneficiary |-> beneficiary, signed |-> signed, vault |-> vault,
                        receiver_vault |-> receiver_vault]
            /\ IF result = "Ok"
               THEN /\ token' = Transferred(token, vault, receiver_vault, amount)
                    /\ ghost' = [ghost EXCEPT !.paid = @ + amount]
               ELSE UNCHANGED <<token, ghost>>
            /\ streaming' = account_exit(result, streaming,
                                         withdraw_fields(streaming, amount))
            /\ UNCHANGED <<now, calc>>

(***************************************************************************)
(* The clock moves forward between instructions.                           *)
(***************************************************************************)
Tick ==
    /\ \E t \in Times : t > now /\ now' = t
    /\ last' = NoOp
    /\ UNCHANGED <<streaming, token, ghost, calc>>

Next == CreateStream \/ Withdraw \/ Tick

Spec == Init /\ [][Next]_vars

(***************************************************************************)
(* The utility functions on their own: the vesting calculator followed     *)
(* second by second over a stream's schedule, and the schedule validator.  *)
(***************************************************************************)
CalcDeposits == (1..MaxCalcDeposit) \cup {ScenarioDeposit}
CalcEnds ==
    {I64(0, MinLead + d) : d \in {1, 2, MaxSpan, ScenarioSpan}} \cup {I64(1, -1)}
CalcStreams ==
    {[ZeroedStreaming EXCEPT !.initialized = TRUE, !.original_deposit_size = a,
                             !.outstanding = a, !.start_ts = I64(0, MinLead),
                             !.end_ts = e] : a \in CalcDeposits, e \in CalcEnds}
\* the clock is followed to one second after the end of the schedule
CalcLastTime(s) == IF s.end_ts.k = 0 THEN s.end_ts.o + 1 ELSE MinLead + 2

CalcStart ==
    /\ calc = NoCalc
    /\ \E s \in CalcStreams :
          LET out == available_for_withdrawal(s, I64(0, MinLead - 1))
          IN  calc' = [fn |-> "available_for_withdrawal", s |-> s, at |-> MinLead - 1,
                       out |-> out, before |-> out]
    /\ UNCHANGED <<streaming, token, now, last, ghost>>

CalcAdvance ==
    /\ calc.fn = "available_for_withdrawal"
    /\ calc.at < CalcLastTime(calc.s)
    /\ calc' = [calc EXCEPT !.at = @ + 1,
                            !.out = available_for_withdrawal(calc.s, I64(0, calc.at + 1)),
                            !.before = calc.out]
    /\ UNCHANGED <<streaming, token, now, last, ghost>>

CalcTimes == {I64(-1, 0), I64(0, 0), I64(0, 1), I64(0, MinLead), I64(0, MinLead + 1),
              I64(1, -1)}

CalcSchedule ==
    /\ calc.fn \in {"none", "is_valid_schedule"}
    /\ \E start_ts \in CalcTimes, end_ts \in CalcTimes, current_time \in CalcTimes,
          overflow_checks \in BOOLEAN :
          calc' = [fn |-> "is_valid_schedule", start_ts |-> start_ts, end_ts |-> end_ts,
                   current_time |-> current_time, overflow_checks |-> overflow_checks,
                   out |-> is_valid_schedule(start_ts, end_ts, current_time,
                                             overflow_checks)]
    /\ UNCHANGED <<streaming, token, now, last, ghost>>

NextCalc == CalcStart \/ CalcAdvance \/ CalcSchedule

SpecCalc == Init /\ [][NextCalc]_vars

(***************************************************************************)
(* Properties.                                                             *)
(***************************************************************************)
Clock == I64(0, now)

\* a - b >= n in the integers (not in i64), for timestamps a, b
DiffAtLeast(a, b, n) ==
    LET K == a.k - b.k
        O == a.o - b.o
    IN  K > 0 \/ (K = 0 /\ O >= n)

\* the last step executed the instruction op with its arguments enumerated
Called(op) == last.op = op /\ last.result # "AccountAlreadyInitialized"
CalledNext(op) == last'.op = op /\ last'.result # "AccountAlreadyInitialized"

C2_LinearVesting ==
    (/\ calc.fn = "available_for_withdrawal"
     /\ calc.s.end_ts.k = 0
     /\ calc.s.start_ts.o <= calc.at
     /\ calc.at < calc.s.end_ts.o)
    => calc.out = (calc.s.original_deposit_size * (calc.at - calc.s.start_ts.o))
                      \div (calc.s.end_ts.o - calc.s.start_ts.o)

\* C3: the vested amount never decreases from one second to the next, is 0
\* before start_ts and is original_deposit_size from end_ts on
C3_MonotoneVesting ==
    calc.fn = "available_for_withdrawal" =>
        /\ calc.before <= calc.out
        /\ I64Lt(I64(0, calc.at), calc.s.start_ts) => calc.out = 0
        /\ I64Le(calc.s.end_ts, I64(0, calc.at))
              => calc.out = calc.s.original_deposit_size

\* C4: a withdraw of more than the vesting calculator gives for the current time
\* never succeeds and moves no funds, and when its accounts pass the constraints
\* of the Withdraw context it fails with InvalidWithdrawAmount
AccountErrors ==
    {"AccountNotInitialized", "ConstraintHasOne", "ConstraintSigner", "ConstraintSeeds"}

C6_OnlyBeneficiaryWithdraws ==
    [][(/\ CalledNext("withdraw")
        /\ ~(last'.signed /\ last'.beneficiary = streaming.beneficiary))
       => /\ last'.result # "Ok"
          /\ token' = token
          /\ streaming' = streaming]_vars

C6_Witness ==
    /\ Called("withdraw")
    /\ streaming.initialized
    /\ last.signed
    /\ last.beneficiary # streaming.beneficiary
    /\ last.vault = streaming.vault
    /\ last.amount > 0
    /\ last.amount <= available_for_withdrawal(streaming, Clock)
    /\ token[last.vault] >= last.amount
    /\ last.result = "ConstraintHasOne"

\* C7: after create_stream the vault field of the streaming account is the
\* vault that received the deposit, the one a withdraw has to name
C7_VaultRecorded ==
    streaming.initialized => streaming.vault = ghost.funded

\* C8: when no authority can be derived from (stream, nonce) or the vault's
\* owner is not that authority, create_stream creates nothing and transfers
\* nothing, and fails with InvalidVaultAuthority once the accounts pass the
\* constraints of the CreateStream context
VaultMismatch(vault, nonce) ==
    \/ ProgramAddress(StreamKey, nonce) = "err"
    \/ TokenOwner(vault) # ProgramAddress(StreamKey, nonce)

C8_VaultAuthorityChecked ==
    [][(/\ CalledNext("create_stream")
        /\ VaultMismatch(last'.vault, last'.nonce))
       => /\ last'.result \in {"ConstraintSigner", "InvalidVaultAuthority"}
          /\ last'.signed => last'.result = "InvalidVaultAuthority"
          /\ streaming' = streaming
          /\ token' = token]_vars

C8_Witness ==
    /\ Called("create_stream")
    /\ last.result = "InvalidVaultAuthority"
    /\ ProgramAddress(StreamKey, last.nonce) # "err"
    /\ TokenOwner(last.vault) # ProgramAddress(StreamKey, last.nonce)
    /\ last.original_deposit_size > 0
    /\ DiffAtLeast(last.end_ts, last.start_ts, 1)
    /\ DiffAtLeast(last.start_ts, Clock, MinLead)

\* C9: with a matching vault authority and a valid schedule, a deposit of 0
\* fails with InvalidDepositAmount, creates nothing and transfers nothing
C9_ZeroDepositRejected ==
    [][(/\ CalledNext("create_stream")
        /\ last'.signed
        /\ ~VaultMismatch(last'.vault, last'.nonce)
        /\ DiffAtLeast(last'.end_ts, last'.start_ts, 1)
        /\ DiffAtLeast(last'.start_ts, Clock, MinLead)
        /\ last'.original_deposit_size = 0)
       => /\ last'.result = "InvalidDepositAmount"
          /\ streaming' = streaming
          /\ token' = token]_vars

C9_Witness ==
    /\ Called("create_stream")
    /\ last.original_deposit_size = 0
    /\ last.signed
    /\ last.depositor_authority = Grantor
    /\ ~VaultMismatch(last.vault, last.nonce)
    /\ DiffAtLeast(last.end_ts, last.start_ts, 1)
    /\ DiffAtLeast(last.start_ts, Clock, MinLead)
    /\ last.result = "InvalidDepositAmount"

\* C10: with a matching vault authority and a deposit above 0, create_stream
\* fails with InvalidSchedule exactly when not (end_ts > start_ts and
\* start_ts - now >= 60), the subtraction taken in the integers
C10_ScheduleChecked ==
    (/\ Called("create_stream")
     /\ last.signed
     /\ ~VaultMismatch(last.vault, last.nonce)
     /\ last.original_deposit_size > 0)
    => (last.result = "InvalidSchedule"
           <=> ~(/\ DiffAtLeast(last.end_ts, last.start_ts, 1)
                 /\ DiffAtLeast(last.start_ts, Clock, MinLead)))

\* C11: a create_stream or a withdraw that returns an error, a failed transfer
\* after the field writes included, leaves the streaming account and every token
\* balance as they were
TransferErrors ==
    {"InsufficientFunds", "MintMismatch", "OwnerMismatch", "MissingRequiredSignature"}

C11_AllOrNothing ==
    [][(/\ last'.op \in {"create_stream", "withdraw"}
        /\ last'.result # "Ok")
       => /\ streaming' = streaming
          /\ token' = token]_vars

C11_Witness ==
    /\ Called("create_stream")
    /\ last.result \in TransferErrors
    /\ last.original_deposit_size > 0
    /\ ~streaming.initialized
    /\ streaming = ZeroedStreaming

\* C12: a successful create_stream writes outstanding = original_deposit_size,
\* created_ts = now, the arguments, the signing authority as grantor and the
\* vault's mint, and moves exactly original_deposit_size from the depositor's
\* token account to the vault
C12_CreatedAsRequested ==
    [][(/\ CalledNext("create_stream")
        /\ last'.result = "Ok")
       => /\ streaming'.initialized
          /\ streaming'.original_deposit_size = last'.original_deposit_size
          /\ streaming'.outstanding = last'.original_deposit_size
          /\ streaming'.created_ts = Clock
          /\ streaming'.beneficiary = last'.beneficiary
          /\ streaming'.start_ts = last'.start_ts
          /\ streaming'.end_ts = last'.end_ts
          /\ streaming'.nonce = last'.nonce
          /\ streaming'.grantor = last'.depositor_authority
          /\ streaming'.mint = TokenMint(last'.vault)
          /\ last'.depositor # last'.vault
          /\ token' = [token EXCEPT
                          ![last'.depositor] = @ - last'.original_deposit_size,
                          ![last'.vault] = @ + last'.original_deposit_size]]_vars

C12_Witness ==
    /\ Called("create_stream")
    /\ last.result = "Ok"
    /\ last.original_deposit_size = MaxDeposit
    /\ streaming.outstanding = MaxDeposit
    /\ token[last.depositor] = GrantorFunds - MaxDeposit
    /\ last.vault = Vault
    /\ token[Vault] = MaxDeposit

\* C13: every stream has original_deposit_size > 0, start_ts < end_ts and
\* start_ts - created_ts >= 60, the subtraction taken in the integers
C13_StreamWellFormed ==
    streaming.initialized =>
        /\ streaming.original_deposit_size > 0
        /\ I64Lt(streaming.start_ts, streaming.end_ts)
        /\ DiffAtLeast(streaming.start_ts, streaming.created_ts, MinLead)

\* C14: outstanding never exceeds original_deposit_size
C14_OutstandingBounded ==
    streaming.outstanding <= streaming.original_deposit_size

C14_Witness ==
    /\ Called("withdraw")
    /\ last.result = "Ok"
    /\ last.amount > 0
    /\ last.receiver_vault = ReceiverTokens
    /\ streaming.initialized
    /\ streaming.outstanding = streaming.original_deposit_size

VaultKeys == {k \in TokenKeys : TokenOwner(k) = ProgramAddress(StreamKey, 254)}

InWindow ==
    /\ calc.fn = "available_for_withdrawal"
    /\ I64Le(calc.s.start_ts, I64(0, calc.at))
    /\ I64Lt(I64(0, calc.at), calc.s.end_ts)

ImmutableFields(s) ==
    <<s.original_deposit_size, s.beneficiary, s.grantor, s.mint, s.created_ts,
      s.start_ts, s.end_ts, s.nonce>>

C17_FieldsImmutable ==
    [][streaming.initialized
       => /\ streaming'.initialized
          /\ ImmutableFields(streaming') = ImmutableFields(streaming)]_vars

C17_Witness ==
    /\ Called("withdraw")
    /\ last.result = "Ok"
    /\ last.amount = streaming.original_deposit_size
    /\ last.receiver_vault = ReceiverTokens
    /\ streaming.initialized
    /\ streaming.original_deposit_size = MaxDeposit

\* C18: create_stream reports the first failing check in the order vault
\* authority, deposit, schedule: a mismatching vault gives InvalidVaultAuthority
\* whatever the deposit and the schedule, a zero deposit with a matching vault
\* gives InvalidDepositAmount whatever the schedule, and InvalidSchedule is
\* returned only with a matching vault and a deposit above 0
C18_ChecksInOrder ==
    [][(/\ CalledNext("create_stream")
        /\ last'.signed)
       => /\ VaultMismatch(last'.vault, last'.nonce)
             => last'.result = "InvalidVaultAuthority"
          /\ (/\ ~VaultMismatch(last'.vault, last'.nonce)
              /\ last'.original_deposit_size = 0)
             => last'.result = "InvalidDepositAmount"
          /\ last'.result = "InvalidSchedule"
             => /\ ~VaultMismatch(last'.vault, last'.nonce)
                /\ last'.original_deposit_size > 0]_vars

C18_Witness ==
    /\ Called("create_stream")
    /\ last.signed
    /\ ~VaultMismatch(last.vault, last.nonce)
    /\ last.original_deposit_size = 0
    /\ I64Le(last.end_ts, last.start_ts)
    /\ last.result = "InvalidDepositAmount"

\* C19: is_valid_schedule accepts only when start_ts - current_time >= 60 in
\* the integers
C19_NoWrapAccepted ==
    (/\ calc.fn = "is_valid_schedule"
     /\ calc.out = "accept")
    => DiffAtLeast(calc.start_ts, calc.current_time, MinLead)
====
